---- MODULE Spec2Model ----
(***************************************************************************)
(* Model of src/src/extensions.ts (cdk-cloudfront-plus): the extension     *)
(* constructs, the construct tree they register themselves in, the roles   *)
(* of the functions they create, and the distributions that consume them.  *)
(*                                                                         *)
(* A construct name is a sequence of string tokens, so that the template   *)
(* literal `LambdaVersion${id}` is the concatenation <<"LambdaVersion">>   *)
(* \o id.  A construct path is a sequence of names; the stack itself is    *)
(* the empty path.  A string that the code joins, escapes or serialises is *)
(* a sequence of one-character strings.                                    *)
(***************************************************************************)
EXTENDS Integers, Sequences, FiniteSets, TLC

VARIABLES tree, exts, roles, dists, err, repeated, ops, serIn, serOther, serOut

vars == <<tree, exts, roles, dists, err, repeated, ops, serIn, serOther, serOut>>

\* ------------------------------------------------------------------ bounds
MaxOps == 2
MaxHostLen == 1
MaxListLen == 2

\* ------------------------------------------------------- event types, names
VIEWER_REQUEST == "viewer-request"
ORIGIN_REQUEST == "origin-request"
ORIGIN_RESPONSE == "origin-response"
VIEWER_RESPONSE == "viewer-response"

LambdaEdgeEventType == {VIEWER_REQUEST, ORIGIN_REQUEST, ORIGIN_RESPONSE, VIEWER_RESPONSE}

Undefined == "undefined"

\* The stack, and a construct of the stack used as a second scope.
StackScope == <<>>
SubScope == << <<"Sub">> >>
Scopes == {StackScope, SubScope}

\* cdk.Stack.of(scope): every scope of the model lives in the one stack.
StackOf(scope) == StackScope

Ids == { <<"x">>, <<"y">> }

\* The caller's own lambda.Function, which CustomProps.func may name.
UserFunc == << <<"UserFunc">> >>

BasicExecutionPolicy == "service-role/AWSLambdaBasicExecutionRole"
FirehosePolicy == "AmazonKinesisFirehoseFullAccess"

\* ------------------------------------------------------------ construct tree
\* The running state of one constructor call: the tree and roles so far, and
\* the error that ended it ("none" while it runs).
Ctx(t, r) == [tree |-> t, roles |-> r, err |-> "none"]

\* new Construct(scope, name): the core library refuses a second child of
\* the same name in one scope; once a call has thrown, nothing more happens.
Register(c, scope, name) ==
  IF c.err # "none" THEN c
  ELSE IF Append(scope, name) \in c.tree
       THEN [c EXCEPT !.err = "DuplicateConstructName"]
       ELSE [c EXCEPT !.tree = @ \cup {Append(scope, name)}]

\* new lambda.Function / NodejsFunction(scope, name): the function registers
\* itself and gets an execution role with the basic execution policy.
NewFunction(c, scope, name) ==
  LET c1 == Register(c, scope, name)
  IN IF c1.err # "none" THEN c1
     ELSE [c1 EXCEPT !.roles = [f \in DOMAIN c1.roles \cup {Append(scope, name)} |->
                                  IF f = Append(scope, name) THEN {BasicExecutionPolicy}
                                  ELSE c1.roles[f]]]

\* func.currentVersion: the Version child is created on first use and cached.
CurrentVersion(c, func) ==
  IF c.err # "none" THEN c
  ELSE [c EXCEPT !.tree = @ \cup {Append(func, <<"CurrentVersion">>)}]

\* func.role?.addManagedPolicy(policy)
AddManagedPolicy(c, func, policy) ==
  IF c.err # "none" \/ func \notin DOMAIN c.roles THEN c
  ELSE [c EXCEPT !.roles[func] = @ \cup {policy}]

\* ------------------------------------------------------------------ strings
RECURSIVE Join(_, _)
\* Array.prototype.join(sep) on a list of strings.
Join(list, sep) ==
  IF list = <<>> THEN <<>>
  ELSE IF Len(list) = 1 THEN list[1]
  ELSE list[1] \o sep \o Join(Tail(list), sep)

RECURSIVE ReplaceAll(_, _, _)
\* String.prototype.replace(/ch/g, by)
ReplaceAll(s, ch, by) ==
  IF s = <<>> THEN <<>>
  ELSE (IF Head(s) = ch THEN by ELSE <<Head(s)>>) \o ReplaceAll(Tail(s), ch, by)

RECURSIVE JsonQuoteChars(_)
\* JSON.stringify's escaping inside a string literal.
JsonQuoteChars(s) ==
  IF s = <<>> THEN <<>>
  ELSE (IF Head(s) = "\"" THEN <<"\\", "\"">>
        ELSE IF Head(s) = "\\" THEN <<"\\", "\\">>
        ELSE <<Head(s)>>) \o JsonQuoteChars(Tail(s))

JsonString(s) == <<"\"">> \o JsonQuoteChars(s) \o <<"\"">>

RECURSIVE JsonMembers(_)
JsonMembers(entries) ==
  IF entries = <<>> THEN <<>>
  ELSE JsonString(entries[1][1]) \o <<":">> \o JsonString(entries[1][2])
       \o (IF Len(entries) > 1 THEN <<",">> ELSE <<>>) \o JsonMembers(Tail(entries))

\* JSON.stringify(value) for the values the extensions pass: an object of
\* string members (in insertion order), a string, a boolean.
JsonStringify(value) ==
  CASE value.type = "object" -> <<"{">> \o JsonMembers(value.entries) \o <<"}">>
    [] value.type = "string" -> JsonString(value.chars)
    [] value.type = "boolean" -> value.chars

jsonStringifiedBundlingDefinitionFirstOnly(value) ==
  LET j == JsonStringify(value)
      First(s, ch, by) ==
        IF \E i \in 1..Len(s) : s[i] = ch
        THEN LET i == CHOOSE k \in 1..Len(s) : s[k] = ch /\ \A m \in 1..(k-1) : s[m] # ch
             IN SubSeq(s, 1, i-1) \o by \o SubSeq(s, i+1, Len(s))
        ELSE s
  IN First(First(j, "\"", <<"\\", "\"">>), ",", <<"\\", ",">>)

jsonStringifiedBundlingDefinition(value) ==
  ReplaceAll(ReplaceAll(JsonStringify(value), "\"", <<"\\", "\"">>), ",", <<"\\", ",">>)

ObjectValue(entries) == [type |-> "object", entries |-> entries, chars |-> <<>>]
StringValue(s) == [type |-> "string", entries |-> <<>>, chars |-> s]
BooleanValue(b) == [type |-> "boolean", entries |-> <<>>,
                    chars |-> IF b THEN <<"t","r","u","e">> ELSE <<"f","a","l","s","e">>]


\* ------------------------------------------------------------- input domains
Chr(s) == <<s>>

RefererLists == { <<>>, << Chr("a"), Chr("b") >> }
OriginIpLists == { << Chr("1") >>, << Chr("1"), Chr("2") >> }
OriginProtocols == { <<"h","t","t","p","s">> }
CountryTables == { <<>>, << << <<"U","S">>, Chr("a") >>, << <<"C","N">>, Chr("b") >> >> }
StreamNames == { Chr("s"), Chr("t") }
OAuthProps == { [clientId |-> Chr("i"), clientSecret |-> Chr("s"), clientDomain |-> Chr("d"),
                 clientPublicKey |-> Chr("k"), callbackPath |-> Chr("c"),
                 jwtArgorithm |-> Chr("j"), authorizeUrl |-> Chr("u"),
                 authorizeParams |-> Chr("p"), debugEnable |-> b] : b \in BOOLEAN }

NoFunc == <<>>
\* CustomProps as a caller can write them: every member is optional.
CustomPropsSet == [func : {NoFunc, UserFunc},
                   eventType : LambdaEdgeEventType \cup {Undefined},
                   includeBody : {"true", "false", Undefined},
                   solutionId : {Undefined}]

\* -------------------------------------------------- serverless-app extensions
\* The ServerlessApp base construct (src/index.ts): a construct `id` in
\* `scope` holding the serverless application resource.
ServerlessApp(c, scope, id) == Register(c, scope, id)

\* this.resource.getAtt(output).toString()
GetAtt(scope, id, output) == Append(Append(scope, id), <<output>>)

bumpFunctionVersionNoFuncArn(c, scope, id) ==
  Register(c, scope, <<"LambdaVersion">> \o id)

bumpFunctionVersion(c, scope, id) ==
  Register(Register(c, scope, <<"FuncArn">> \o id), scope, <<"LambdaVersion">> \o id)

ServerlessExt(kind, scope, id, output, eventType, parameters) ==
  [kind |-> kind, scope |-> scope, id |-> id,
   functionArn |-> GetAtt(scope, id, output),
   functionVersion |-> Append(StackOf(scope), <<"LambdaVersion">> \o id),
   eventType |-> eventType, includeBody |-> Undefined, parameters |-> parameters]

ModifyResponseHeaderNew(c, scope, id) ==
  [ctx |-> bumpFunctionVersion(ServerlessApp(c, scope, id), StackOf(scope), id),
   ext |-> ServerlessExt("ModifyResponseHeader", scope, id,
                         "Outputs.ModifyResponseHeaderFunctionARN", ORIGIN_RESPONSE, {})]

AntiHotlinkingNewSemicolon(c, scope, id, props) ==
  [ctx |-> bumpFunctionVersion(ServerlessApp(c, scope, id), StackOf(scope), id),
   ext |-> ServerlessExt("AntiHotlinking", scope, id, "Outputs.AntiHotlinking", VIEWER_REQUEST,
                         { <<"RefererList", Join(props.referer, <<";">>)>> })]

AntiHotlinkingNew(c, scope, id, props) ==
  [ctx |-> bumpFunctionVersion(ServerlessApp(c, scope, id), StackOf(scope), id),
   ext |-> ServerlessExt("AntiHotlinking", scope, id, "Outputs.AntiHotlinking", VIEWER_REQUEST,
                         { <<"RefererList", Join(props.referer, <<",">>)>> })]

SecurtyHeadersNewViewerResponse(c, scope, id) ==
  [ctx |-> bumpFunctionVersion(ServerlessApp(c, scope, id), StackOf(scope), id),
   ext |-> ServerlessExt("SecurtyHeaders", scope, id, "Outputs.AddSecurityHeaderFunction",
                         VIEWER_RESPONSE, {})]

SecurtyHeadersNew(c, scope, id) ==
  [ctx |-> bumpFunctionVersion(ServerlessApp(c, scope, id), StackOf(scope), id),
   ext |-> ServerlessExt("SecurtyHeaders", scope, id, "Outputs.AddSecurityHeaderFunction",
                         ORIGIN_RESPONSE, {})]

MultipleOriginIpRetryNewByProps(c, scope, id, props) ==
  [ctx |-> bumpFunctionVersion(ServerlessApp(c, scope, id), StackOf(scope), id),
   ext |-> ServerlessExt("MultipleOriginIpRetry", scope, id, "Outputs.MultipleOriginIPRetry",
                         IF Len(props.originIp) > 1 THEN ORIGIN_REQUEST ELSE VIEWER_REQUEST,
                         { <<"OriginIPList", Join(props.originIp, <<";">>)>>,
                           <<"OriginProtocol", props.originProtocol>> })]

MultipleOriginIpRetryNew(c, scope, id, props) ==
  [ctx |-> bumpFunctionVersion(ServerlessApp(c, scope, id), StackOf(scope), id),
   ext |-> ServerlessExt("MultipleOriginIpRetry", scope, id, "Outputs.MultipleOriginIPRetry",
                         ORIGIN_REQUEST,
                         { <<"OriginIPList", Join(props.originIp, <<";">>)>>,
                           <<"OriginProtocol", props.originProtocol>> })]

NormalizeQueryStringNew(c, scope, id) ==
  [ctx |-> bumpFunctionVersion(ServerlessApp(c, scope, id), StackOf(scope), id),
   ext |-> ServerlessExt("NormalizeQueryString", scope, id,
                         "Outputs.NormalizeQueryStringFunction", VIEWER_REQUEST, {})]

\* ------------------------------------------------------------ Custom and kin
\* `a ?? b` on a value that may be undefined.
CoalesceDefaultOnly(a, b) == b

Coalesce(a, b) == IF a = Undefined THEN b ELSE a

CustomNewUnregistered(c, kind, scope, id, props, parameters) ==
  LET self == Append(scope, id)
      func == IF props.func # NoFunc THEN props.func ELSE Append(self, <<"CustomFunc">>)
      c2 == IF props.func # NoFunc THEN c ELSE NewFunction(c, self, <<"CustomFunc">>)
      c3 == CurrentVersion(c2, func)
      c4 == IF props.solutionId \notin {Undefined, ""}
            THEN Register(c3, self, <<"SolutionId">>) ELSE c3
  IN [ctx |-> c4,
      ext |-> [kind |-> kind, scope |-> scope, id |-> id,
               functionArn |-> func,
               functionVersion |-> Append(func, <<"CurrentVersion">>),
               eventType |-> Coalesce(props.eventType, ORIGIN_RESPONSE),
               includeBody |-> Coalesce(props.includeBody, "false"),
               parameters |-> parameters]]

\* Custom's constructor, run for the class `kind` (Custom itself or a
\* subclass calling super) from the state c its caller has reached.
CustomNew(c, kind, scope, id, props, parameters) ==
  LET self == Append(scope, id)
      func == IF props.func # NoFunc THEN props.func ELSE Append(self, <<"CustomFunc">>)
      c1 == Register(c, scope, id)
      c2 == IF props.func # NoFunc THEN c1 ELSE NewFunction(c1, self, <<"CustomFunc">>)
      c3 == CurrentVersion(c2, func)
      \* _outputSolutionId: `if (this.props.solutionId)` is false for undefined and ''
      c4 == IF props.solutionId \notin {Undefined, ""}
            THEN Register(c3, self, <<"SolutionId">>) ELSE c3
  IN [ctx |-> c4,
      ext |-> [kind |-> kind, scope |-> scope, id |-> id,
               functionArn |-> func,
               functionVersion |-> Append(func, <<"CurrentVersion">>),
               eventType |-> Coalesce(props.eventType, ORIGIN_RESPONSE),
               includeBody |-> Coalesce(props.includeBody, "false"),
               parameters |-> parameters]]

DefaultDirIndexNew(c, scope, id) ==
  CustomNew(NewFunction(c, scope, <<"DefaultDirIndexFunc">>), "DefaultDirIndex", scope, id,
            [func |-> Append(scope, <<"DefaultDirIndexFunc">>), eventType |-> ORIGIN_REQUEST,
             includeBody |-> Undefined, solutionId |-> "SO8134"], {})

CustomErrorPageNew(c, scope, id) ==
  CustomNew(c, "CustomErrorPage", scope, id,
            [func |-> NoFunc, eventType |-> ORIGIN_RESPONSE,
             includeBody |-> Undefined, solutionId |-> "SO8136"], {})

AccessOriginByGeolocationNewViewerRequest(c, scope, id, props) ==
  CustomNew(NewFunction(c, scope, <<"AccessOriginByGeolocationFunc">>),
            "AccessOriginByGeolocation", scope, id,
            [func |-> Append(scope, <<"AccessOriginByGeolocationFunc">>),
             eventType |-> VIEWER_REQUEST, includeBody |-> Undefined, solutionId |-> "S08118"],
            { <<"process.env.COUNTRY_CODE_TABLE",
                jsonStringifiedBundlingDefinition(ObjectValue(props.countryTable))>> })

AccessOriginByGeolocationNew(c, scope, id, props) ==
  CustomNew(NewFunction(c, scope, <<"AccessOriginByGeolocationFunc">>),
            "AccessOriginByGeolocation", scope, id,
            [func |-> Append(scope, <<"AccessOriginByGeolocationFunc">>),
             eventType |-> ORIGIN_REQUEST, includeBody |-> Undefined, solutionId |-> "S08118"],
            { <<"process.env.COUNTRY_CODE_TABLE",
                jsonStringifiedBundlingDefinition(ObjectValue(props.countryTable))>> })

RedirectByGeolocationNew(c, scope, id, props) ==
  CustomNew(NewFunction(c, scope, <<"RedirectByGeolocationFunc">>),
            "RedirectByGeolocation", scope, id,
            [func |-> Append(scope, <<"RedirectByGeolocationFunc">>),
             eventType |-> ORIGIN_REQUEST, includeBody |-> Undefined, solutionId |-> "SO8135"],
            { <<"process.env.COUNTRY_CODE_TABLE",
                jsonStringifiedBundlingDefinition(ObjectValue(props.countryTable))>> })

SimpleLambdaEdgeNew(c, scope, id) ==
  CustomNew(NewFunction(c, scope, <<"SimpleLambdaEdgeFunc">>), "SimpleLambdaEdge", scope, id,
            [func |-> Append(scope, <<"SimpleLambdaEdgeFunc">>), eventType |-> VIEWER_REQUEST,
             includeBody |-> Undefined, solutionId |-> ""], {})

OAuth2AuthorizationCodeGrantNew(c, scope, id, props) ==
  CustomNew(NewFunction(c, scope, <<"OAuth2AuthorizationCodeGrantFunc">>),
            "OAuth2AuthorizationCodeGrant", scope, id,
            [func |-> Append(scope, <<"OAuth2AuthorizationCodeGrantFunc">>),
             eventType |-> VIEWER_REQUEST, includeBody |-> Undefined, solutionId |-> "SO8131"],
            { <<"process.env.CLIENT_ID", jsonStringifiedBundlingDefinition(StringValue(props.clientId))>>,
              <<"process.env.CLIENT_SECRET", jsonStringifiedBundlingDefinition(StringValue(props.clientSecret))>>,
              <<"process.env.CLIENT_DOMAIN", jsonStringifiedBundlingDefinition(StringValue(props.clientDomain))>>,
              <<"process.env.CLIENT_PUBLIC_KEY", jsonStringifiedBundlingDefinition(StringValue(props.clientPublicKey))>>,
              <<"process.env.CALLBACK_PATH", jsonStringifiedBundlingDefinition(StringValue(props.callbackPath))>>,
              <<"process.env.JWT_ARGORITHM", jsonStringifiedBundlingDefinition(StringValue(props.jwtArgorithm))>>,
              <<"process.env.AUTHORIZE_URL", jsonStringifiedBundlingDefinition(StringValue(props.authorizeUrl))>>,
              <<"process.env.AUTHORIZE_PARAMS", jsonStringifiedBundlingDefinition(StringValue(props.authorizeParams))>>,
              <<"process.env.DEBUG_ENABLE", jsonStringifiedBundlingDefinition(BooleanValue(props.debugEnable))>> })

GlobalDataIngestionNewNoPolicy(c, scope, id, props) ==
  CustomNew(NewFunction(c, scope, <<"GlobalDataIngestionFunc">>),
            "GlobalDataIngestion", scope, id,
            [func |-> Append(scope, <<"GlobalDataIngestionFunc">>),
             eventType |-> VIEWER_REQUEST, includeBody |-> "true", solutionId |-> "SO8133"],
            { <<"process.env.DELIVERY_STREAM_NAME",
                jsonStringifiedBundlingDefinition(StringValue(props.firehoseStreamName))>> })

GlobalDataIngestionNew(c, scope, id, props) ==
  CustomNew(AddManagedPolicy(NewFunction(c, scope, <<"GlobalDataIngestionFunc">>),
                             Append(scope, <<"GlobalDataIngestionFunc">>), FirehosePolicy),
            "GlobalDataIngestion", scope, id,
            [func |-> Append(scope, <<"GlobalDataIngestionFunc">>),
             eventType |-> VIEWER_REQUEST, includeBody |-> "true", solutionId |-> "SO8133"],
            { <<"process.env.DELIVERY_STREAM_NAME",
                jsonStringifiedBundlingDefinition(StringValue(props.firehoseStreamName))>> })


\* -------------------------------------------------------------- the program
\* The stack before any extension is made: its second scope, and the
\* caller's function with its role.  `repeated` is a history variable: the
\* last constructor call asked for an extension that an earlier call made.
InitStack ==
  /\ tree = {SubScope, UserFunc}
  /\ exts = {}
  /\ roles = [f \in {UserFunc} |-> {BasicExecutionPolicy}]
  /\ dists = {}
  /\ err = "none"
  /\ repeated = FALSE
  /\ ops = 0

Init ==
  /\ InitStack
  /\ serIn = <<>>
  /\ serOther = <<>>
  /\ serOut = <<>>

\* The outcome of one constructor call: what it registered stays registered
\* also when it threw; the extension exists only when it did not.
Construct(res) ==
  /\ ops < MaxOps
  /\ ops' = ops + 1
  /\ tree' = res.ctx.tree
  /\ roles' = res.ctx.roles
  /\ err' = res.ctx.err
  /\ repeated' = (res.ext \in exts)
  /\ exts' = IF res.ctx.err = "none" THEN exts \cup {res.ext} ELSE exts
  /\ UNCHANGED <<dists, serIn, serOther, serOut>>

ModifyResponseHeader(scope, id) ==
  Construct(ModifyResponseHeaderNew(Ctx(tree, roles), scope, id))

AntiHotlinking(scope, id, props) ==
  Construct(AntiHotlinkingNew(Ctx(tree, roles), scope, id, props))

SecurtyHeaders(scope, id) ==
  Construct(SecurtyHeadersNew(Ctx(tree, roles), scope, id))

MultipleOriginIpRetry(scope, id, props) ==
  Construct(MultipleOriginIpRetryNew(Ctx(tree, roles), scope, id, props))

NormalizeQueryString(scope, id) ==
  Construct(NormalizeQueryStringNew(Ctx(tree, roles), scope, id))

Custom(scope, id, props) ==
  Construct(CustomNew(Ctx(tree, roles), "Custom", scope, id, props, {}))

DefaultDirIndex(scope, id) ==
  Construct(DefaultDirIndexNew(Ctx(tree, roles), scope, id))

CustomErrorPage(scope, id) ==
  Construct(CustomErrorPageNew(Ctx(tree, roles), scope, id))

AccessOriginByGeolocation(scope, id, props) ==
  Construct(AccessOriginByGeolocationNew(Ctx(tree, roles), scope, id, props))

RedirectByGeolocation(scope, id, props) ==
  Construct(RedirectByGeolocationNew(Ctx(tree, roles), scope, id, props))

SimpleLambdaEdge(scope, id) ==
  Construct(SimpleLambdaEdgeNew(Ctx(tree, roles), scope, id))

OAuth2AuthorizationCodeGrant(scope, id, props) ==
  Construct(OAuth2AuthorizationCodeGrantNew(Ctx(tree, roles), scope, id, props))

GlobalDataIngestion(scope, id, props) ==
  Construct(GlobalDataIngestionNew(Ctx(tree, roles), scope, id, props))

\* A distribution of the stack whose default behavior has one function
\* association, taken from the extension: { eventType: ext.eventType,
\* lambdaFunction: ext.functionVersion }.
DistIds == { <<"Distribution">>, <<"dist">> }

AssociationFixedEvent(ext) ==
  [eventType |-> ORIGIN_REQUEST, lambdaFunction |-> ext.functionVersion]

Association(ext) == [eventType |-> ext.eventType, lambdaFunction |-> ext.functionVersion]

NewDistribution(distId, ext) ==
  LET c == Register(Ctx(tree, roles), StackScope, distId)
  IN /\ ops < MaxOps
     /\ ops' = ops + 1
     /\ tree' = c.tree
     /\ err' = c.err
     /\ repeated' = FALSE
     /\ dists' = IF c.err = "none"
                 THEN dists \cup {[id |-> distId, associations |-> <<Association(ext)>>]}
                 ELSE dists
     /\ UNCHANGED <<exts, roles, serIn, serOther, serOut>>

Next ==
  \/ \E scope \in Scopes, id \in Ids : ModifyResponseHeader(scope, id)
  \/ \E scope \in Scopes, id \in Ids, referer \in RefererLists :
        AntiHotlinking(scope, id, [referer |-> referer])
  \/ \E scope \in Scopes, id \in Ids : SecurtyHeaders(scope, id)
  \/ \E scope \in Scopes, id \in Ids, originIp \in OriginIpLists, proto \in OriginProtocols :
        MultipleOriginIpRetry(scope, id, [originIp |-> originIp, originProtocol |-> proto])
  \/ \E scope \in Scopes, id \in Ids : NormalizeQueryString(scope, id)
  \/ \E scope \in Scopes, id \in Ids, props \in CustomPropsSet : Custom(scope, id, props)
  \/ \E scope \in Scopes, id \in Ids : DefaultDirIndex(scope, id)
  \/ \E scope \in Scopes, id \in Ids : CustomErrorPage(scope, id)
  \/ \E scope \in Scopes, id \in Ids, table \in CountryTables :
        AccessOriginByGeolocation(scope, id, [countryTable |-> table])
  \/ \E scope \in Scopes, id \in Ids, table \in CountryTables :
        RedirectByGeolocation(scope, id, [countryTable |-> table])
  \/ \E scope \in Scopes, id \in Ids : SimpleLambdaEdge(scope, id)
  \/ \E scope \in Scopes, id \in Ids, props \in OAuthProps :
        OAuth2AuthorizationCodeGrant(scope, id, props)
  \/ \E scope \in Scopes, id \in Ids, name \in StreamNames :
        GlobalDataIngestion(scope, id, [firehoseStreamName |-> name])
  \/ \E distId \in DistIds, ext \in exts : NewDistribution(distId, ext)

Spec == Init /\ [][Next]_vars


\* ------------------------------------------- the country table, serialised
\* Country tables whose hosts are any strings of at most MaxHostLen
\* characters, the characters the escaping treats specially among them.
SerChars == {"a", "\"", ",", "\\"}
SerHosts == UNION { [1..n -> SerChars] : n \in 0..MaxHostLen }
SerTables ==
  {<<>>}
  \cup { << << <<"U","S">>, h >> >> : h \in SerHosts }
  \cup { << << <<"C","N">>, h >> >> : h \in SerHosts }
  \cup { << << <<"U","S">>, h >>, << <<"C","N">>, g >> >> : h \in SerHosts, g \in SerHosts }

CountryTableDefine(ext) ==
  (CHOOSE kv \in ext.parameters : kv[1] = "process.env.COUNTRY_CODE_TABLE")[2]

InitSer ==
  /\ InitStack
  /\ serIn \in SerTables
  /\ serOther \in SerTables
  /\ serOut = <<>>

\* The two geolocation extensions are made from the two tables; serOut keeps
\* the definitions they hand to the bundler.
SerializeCountryTables ==
  /\ serOut = <<>>
  /\ serOut' = << CountryTableDefine(AccessOriginByGeolocationNew(
                      Ctx(tree, roles), StackScope, <<"x">>, [countryTable |-> serIn]).ext),
                  CountryTableDefine(RedirectByGeolocationNew(
                      Ctx(tree, roles), StackScope, <<"y">>, [countryTable |-> serOther]).ext) >>
  /\ UNCHANGED <<tree, exts, roles, dists, err, repeated, ops, serIn, serOther>>

NextSer == SerializeCountryTables

SpecSer == InitSer /\ [][NextSer]_vars


\* ------------------------------------------------- the list-valued parameters
\* Lists of at most MaxListLen strings, among them the empty string and
\* strings that hold the separators.
JoinElems == { <<>>, <<"a">>, <<"b">>, <<",">>, <<";">>, <<"a", ",", "b">> }
JoinLists == UNION { [1..n -> JoinElems] : n \in 0..MaxListLen }

ParameterOf(ext, key) == (CHOOSE kv \in ext.parameters : kv[1] = key)[2]

InitJoin ==
  /\ InitStack
  /\ serIn \in JoinLists
  /\ serOther \in JoinLists
  /\ serOut = <<>>

\* AntiHotlinking and MultipleOriginIpRetry are made from the two lists;
\* serOut keeps the RefererList and OriginIPList parameters they pass on.
SubstituteLists ==
  /\ serOut = <<>>
  /\ serOut' =
       << ParameterOf(AntiHotlinkingNew(Ctx(tree, roles), StackScope, <<"x">>,
                                        [referer |-> serIn]).ext, "RefererList"),
          ParameterOf(AntiHotlinkingNew(Ctx(tree, roles), StackScope, <<"y">>,
                                        [referer |-> serOther]).ext, "RefererList"),
          ParameterOf(MultipleOriginIpRetryNew(Ctx(tree, roles), StackScope, <<"x">>,
                        [originIp |-> serIn, originProtocol |-> <<"h","t","t","p">>]).ext,
                      "OriginIPList"),
          ParameterOf(MultipleOriginIpRetryNew(Ctx(tree, roles), StackScope, <<"y">>,
                        [originIp |-> serOther, originProtocol |-> <<"h","t","t","p">>]).ext,
                      "OriginIPList") >>
  /\ UNCHANGED <<tree, exts, roles, dists, err, repeated, ops, serIn, serOther>>

NextJoin == SubstituteLists

SpecJoin == InitJoin /\ [][NextJoin]_vars

\* ===================================================================== claims
ServerlessKinds == {"ModifyResponseHeader", "AntiHotlinking", "SecurtyHeaders",
                    "MultipleOriginIpRetry", "NormalizeQueryString"}
RequestEventTypes == {VIEWER_REQUEST, ORIGIN_REQUEST}
ResponseEventTypes == {ORIGIN_RESPONSE, VIEWER_RESPONSE}

\* C1: for every built-in kind (every kind but Custom) the eventType of the
\* extension is the same whatever properties the caller supplied: any two
\* extensions of one built-in kind have the same eventType.
C1_BuiltInEventTypeFixed ==
  \A e1 \in exts, e2 \in exts :
    (e1.kind = e2.kind /\ e1.kind # "Custom") => e1.eventType = e2.eventType

\* Two extensions of one built-in kind made from different properties.
C1_Witness ==
  \E e1 \in exts, e2 \in exts :
    /\ e1.kind = e2.kind
    /\ e1.kind = "MultipleOriginIpRetry"
    /\ e1.parameters # e2.parameters

\* C2: every extension, of any kind and for any properties, has includeBody
\* true only with eventType viewer-request or origin-request.
C2_IncludeBodyOnlyOnRequest ==
  \A e \in exts : e.includeBody = "true" => e.eventType \in RequestEventTypes

\* C3: making a Custom extension whose event type (given, or the default
\* origin-response when omitted) is a response event and whose includeBody
\* is true fails with UnsupportedEventTypeCombination and makes no extension
\* (calls that throw for a name already taken aside).
C3_CustomResponseBodyRejected ==
  [][\A scope \in Scopes, id \in Ids, props \in CustomPropsSet :
       ( /\ props.includeBody = "true"
         /\ Coalesce(props.eventType, ORIGIN_RESPONSE) \in ResponseEventTypes
         /\ Custom(scope, id, props)
         /\ err' # "DuplicateConstructName" )
       => (err' = "UnsupportedEventTypeCombination" /\ exts' = exts)]_vars

\* C4: making AntiHotlinking with an empty referer list, or
\* AccessOriginByGeolocation with an empty country table, fails with
\* InvalidConfiguration and makes no extension (so no AntiHotlinking
\* extension has the empty string as its RefererList); calls that throw
\* for a name already taken aside.
C4_EmptyRequiredPropertyRejected ==
  [][\A scope \in Scopes, id \in Ids :
       ( /\ \/ AntiHotlinking(scope, id, [referer |-> <<>>])
            \/ AccessOriginByGeolocation(scope, id, [countryTable |-> <<>>])
         /\ err' # "DuplicateConstructName" )
       => (err' = "InvalidConfiguration" /\ exts' = exts)]_vars

\* ---- reading a serialised country table back
RECURSIVE Unescape(_)
\* Drops the backslash that stands before a double quote or a comma.
Unescape(s) ==
  IF s = <<>> THEN <<>>
  ELSE IF Head(s) = "\\" /\ Len(s) > 1 /\ s[2] \in {"\"", ","}
       THEN <<s[2]>> \o Unescape(SubSeq(s, 3, Len(s)))
       ELSE <<Head(s)>> \o Unescape(Tail(s))

ParseFailure == [ok |-> FALSE, val |-> <<>>, next |-> 0]

RECURSIVE ParseChars(_, _, _)
\* The characters of a JSON string literal from position i to its closing quote.
ParseChars(s, i, acc) ==
  IF i > Len(s) THEN ParseFailure
  ELSE IF s[i] = "\"" THEN [ok |-> TRUE, val |-> acc, next |-> i + 1]
  ELSE IF s[i] = "\\"
       THEN IF i + 1 <= Len(s) /\ s[i+1] \in {"\"", "\\"}
            THEN ParseChars(s, i + 2, Append(acc, s[i+1]))
            ELSE ParseFailure
  ELSE ParseChars(s, i + 1, Append(acc, s[i]))

ParseStringAt(s, i) ==
  IF i <= Len(s) /\ s[i] = "\"" THEN ParseChars(s, i + 1, <<>>) ELSE ParseFailure

RECURSIVE ParseMembers(_, _, _)
ParseMembers(s, i, acc) ==
  LET k == ParseStringAt(s, i)
  IN IF ~k.ok \/ k.next > Len(s) \/ s[k.next] # ":" THEN ParseFailure
     ELSE LET v == ParseStringAt(s, k.next + 1)
          IN IF ~v.ok \/ v.next > Len(s) THEN ParseFailure
             ELSE IF s[v.next] = "}"
                  THEN IF v.next = Len(s)
                       THEN [ok |-> TRUE, val |-> Append(acc, <<k.val, v.val>>), next |-> v.next + 1]
                       ELSE ParseFailure
             ELSE IF s[v.next] = ","
                  THEN ParseMembers(s, v.next + 1, Append(acc, <<k.val, v.val>>))
             ELSE ParseFailure

\* JSON.parse of an object of string members: [ok, val] with val the members in order.
JsonParseObject(s) ==
  IF Len(s) < 2 \/ s[1] # "{" THEN [ok |-> FALSE, val |-> <<>>]
  ELSE IF s = <<"{", "}">> THEN [ok |-> TRUE, val |-> <<>>]
  ELSE LET r == ParseMembers(s, 2, <<>>) IN [ok |-> r.ok, val |-> r.val]

ReadBack(s) == JsonParseObject(Unescape(s))

\* C5: the serialised country table is reversible: undoing the escaping
\* and JSON-parsing gives back exactly the table the extension was made
\* from, and two different tables never serialise to the same string.
C5_CountryTableRoundTrip ==
  serOut # <<>> =>
    /\ ReadBack(serOut[1]) = [ok |-> TRUE, val |-> serIn]
    /\ ReadBack(serOut[2]) = [ok |-> TRUE, val |-> serOther]
    /\ (serOut[1] = serOut[2] => serIn = serOther)

\* Two different two-country tables, one with a host that is a double quote
\* and one with a host that is a backslash, have been serialised.
C5_Witness ==
  /\ serOut # <<>>
  /\ Len(serIn) = 2 /\ Len(serOther) = 2
  /\ serIn[1][2] = <<"\"">> /\ serIn[2][2] = <<",">>
  /\ serOther[2][2] = <<"\\">>

\* C6: every GlobalDataIngestion extension has eventType viewer-request,
\* includeBody true, and a function whose role holds the firehose policy.
C6_GlobalDataIngestion ==
  \A e \in exts :
    e.kind = "GlobalDataIngestion" =>
      /\ e.eventType = VIEWER_REQUEST
      /\ e.includeBody = "true"
      /\ e.functionArn \in DOMAIN roles
      /\ FirehosePolicy \in roles[e.functionArn]

C6_Witness ==
  \E e \in exts :
    /\ e.kind = "GlobalDataIngestion"
    /\ <<"process.env.DELIVERY_STREAM_NAME", <<"\\", "\"", "t", "\\", "\"">> >> \in e.parameters

\* C7 as claimed: a constructor call with the inputs of an earlier call
\* (same kind, properties, scope and id) succeeds like the first.
C7_SecondCallSucceeds == repeated => err = "none"

\* C7 amended: a constructor call with the inputs of an earlier call always
\* throws the duplicate-construct-name error and makes no extension; the
\* extension of the first call stays as it was.
C7_SecondCallThrows ==
  [][repeated' => (err' = "DuplicateConstructName" /\ exts' = exts)]_vars

C7_Witness == repeated /\ err = "DuplicateConstructName" /\ exts # {}

\* C8: each built-in kind binds to the event of its category, and no
\* built-in kind binds to viewer-response.
C8_CategoryBinding ==
  \A e \in exts :
    /\ e.kind \in {"SecurtyHeaders", "CustomErrorPage", "ModifyResponseHeader"}
         => e.eventType = ORIGIN_RESPONSE
    /\ e.kind \in {"OAuth2AuthorizationCodeGrant", "AntiHotlinking"}
         => e.eventType = VIEWER_REQUEST
    /\ e.kind \in {"RedirectByGeolocation", "AccessOriginByGeolocation",
                   "MultipleOriginIpRetry", "DefaultDirIndex", "NormalizeQueryString"}
         => e.eventType \in {ORIGIN_REQUEST, VIEWER_REQUEST}
    /\ e.kind # "Custom" => e.eventType # VIEWER_RESPONSE

C8_Witness ==
  /\ \E e \in exts : e.kind = "SecurtyHeaders"
  /\ \E e \in exts : e.kind = "NormalizeQueryString"

\* ---- what a step leaves alone
\* The constructs an extension owns: the construct made for it and all below.
Owned(e, p) ==
  Len(p) > Len(e.scope) /\ SubSeq(p, 1, Len(e.scope) + 1) = Append(e.scope, e.id)

\* C9 as claimed: a constructor call changes nothing outside the extension
\* it returns (every construct it registers is the extension's own, no role
\* changes), and a call that fails changes nothing at all.
C9_NoSideEffects ==
  [][ops' # ops /\ dists' = dists =>
        /\ err' # "none" => (tree' = tree /\ roles' = roles)
        /\ \A p \in tree' \ tree : \E e \in exts' \ exts : Owned(e, p)
        /\ \A f \in DOMAIN roles' : \/ f \in DOMAIN roles /\ roles'[f] = roles[f]
                                    \/ \E e \in exts' \ exts : Owned(e, f)]_vars

\* C9 amended: a constructor call only adds: no construct, extension or
\* distribution goes away or changes, the role of a function that existed
\* keeps its policies, and a failed call makes no extension.  A successful
\* call registers the extension's construct `id` in the caller's scope, and
\* for the serverless-application kinds also FuncArn<id> and
\* LambdaVersion<id> in the stack, for the others the current version of
\* the function used; a failed call may leave constructs behind.
C9_OnlyAdds ==
  [][/\ tree \subseteq tree'
     /\ exts \subseteq exts'
     /\ dists \subseteq dists'
     /\ \A f \in DOMAIN roles : f \in DOMAIN roles' /\ roles'[f] = roles[f]
     /\ err' # "none" => (exts' = exts /\ dists' = dists)
     /\ \A e \in exts' \ exts :
          /\ Append(e.scope, e.id) \in tree' \ tree
          /\ e.functionVersion \in tree'
          /\ e.kind \in ServerlessKinds =>
               /\ Append(StackOf(e.scope), <<"FuncArn">> \o e.id) \in tree' \ tree
               /\ e.functionVersion \in tree' \ tree]_vars

\* A call has failed and left behind a function that no extension uses.
C9_Witness ==
  /\ err = "DuplicateConstructName"
  /\ \E f \in DOMAIN roles : f # UserFunc /\ \A e \in exts : e.functionArn # f
  /\ \E e \in exts : e.kind \in ServerlessKinds

C11_CustomPassThrough ==
  [][\A e \in exts' \ exts :
       e.kind = "Custom" =>
         /\ e.includeBody \in {"true", "false"}
         /\ \E props \in CustomPropsSet : Custom(e.scope, e.id, props)
         /\ \A props \in CustomPropsSet :
              Custom(e.scope, e.id, props) =>
                /\ e.eventType = IF props.eventType = Undefined
                                 THEN ORIGIN_RESPONSE ELSE props.eventType
                /\ e.includeBody = IF props.includeBody = Undefined
                                   THEN "false" ELSE props.includeBody]_vars

\* A Custom extension made with a given event type and body access, and one
\* with the defaults.
C11_Witness ==
  /\ \E e \in exts : e.kind = "Custom" /\ e.eventType = VIEWER_REQUEST /\ e.includeBody = "true"
  /\ \E e \in exts : e.kind = "Custom" /\ e.eventType = ORIGIN_RESPONSE /\ e.includeBody = "false"

\* C12: a distribution built with a geolocation origin-selection extension
\* as the edge function of its default behavior has exactly one function
\* association there: its event type is origin-request and its function is
\* the current version of the extension's function.
GeolocationFunc(e) ==
  Append(e.scope, IF e.kind = "AccessOriginByGeolocation"
                  THEN <<"AccessOriginByGeolocationFunc">>
                  ELSE <<"RedirectByGeolocationFunc">>)

C12_GeolocationAssociation ==
  [][\A distId \in DistIds : \A e \in exts :
       ( /\ e.kind \in {"AccessOriginByGeolocation", "RedirectByGeolocation"}
         /\ NewDistribution(distId, e)
         /\ err' = "none" )
       => \E d \in dists' \ dists :
            /\ d.id = distId
            /\ Len(d.associations) = 1
            /\ d.associations[1].eventType = ORIGIN_REQUEST
            /\ d.associations[1].lambdaFunction = Append(GeolocationFunc(e), <<"CurrentVersion">>)
            /\ d.associations[1].lambdaFunction \in tree'
            /\ d.associations[1].lambdaFunction = e.functionVersion]_vars

\* The distribution `dist` holds the association of an origin-selection
\* extension made from a table of two countries.
C12_Witness ==
  \E d \in dists : \E e \in exts :
    /\ d.id = <<"dist">>
    /\ e.kind = "AccessOriginByGeolocation"
    /\ \E kv \in e.parameters : Len(kv[2]) > 2
    /\ d.associations = << [eventType |-> ORIGIN_REQUEST, lambdaFunction |-> e.functionVersion] >>


\* ---- reading a joined list back
RECURSIVE SplitFrom(_, _, _, _)
SplitFrom(s, sep, cur, acc) ==
  IF s = <<>> THEN Append(acc, cur)
  ELSE IF Head(s) = sep THEN SplitFrom(Tail(s), sep, <<>>, Append(acc, cur))
  ELSE SplitFrom(Tail(s), sep, Append(cur, Head(s)), acc)

\* String.prototype.split(sep) for a one-character separator.
Split(s, sep) == SplitFrom(s, sep, <<>>, <<>>)

\* A list with at least one string and the separator in none of them.
SeparatorFree(list, sep) ==
  /\ list # <<>>
  /\ \A i \in 1..Len(list) : \A j \in 1..Len(list[i]) : list[i][j] # sep

\* C13 as claimed: for every list of strings, splitting RefererList on ','
\* and OriginIPList on ';' gives back the caller's list, and two different
\* lists never give the same parameter value.
C13_ListsWithoutLoss ==
  serOut # <<>> =>
    /\ Split(serOut[1], ",") = serIn
    /\ Split(serOut[3], ";") = serIn
    /\ (serOut[1] = serOut[2] => serIn = serOther)
    /\ (serOut[3] = serOut[4] => serIn = serOther)

\* C13 amended: the same for the lists that have at least one string and
\* hold the separator in none of their strings (',' for RefererList, ';'
\* for OriginIPList); a list with one empty string is among them. The empty
\* list gives the empty parameter, the same as the list of one empty string.
C13_SeparatorFreeListsWithoutLoss ==
  serOut # <<>> =>
    /\ serIn = <<>> =>
         /\ serOut[1] = <<>> /\ serOut[3] = <<>>
         /\ Split(serOut[1], ",") = << <<>> >>
         /\ Split(serOut[3], ";") = << <<>> >>
    /\ SeparatorFree(serIn, ",") => Split(serOut[1], ",") = serIn
    /\ SeparatorFree(serIn, ";") => Split(serOut[3], ";") = serIn
    /\ (SeparatorFree(serIn, ",") /\ SeparatorFree(serOther, ",") /\ serOut[1] = serOut[2])
         => serIn = serOther
    /\ (SeparatorFree(serIn, ";") /\ SeparatorFree(serOther, ";") /\ serOut[3] = serOut[4])
         => serIn = serOther

\* A two-string list whose second string is the other parameter's separator,
\* and the list of one empty string, have been substituted.
C13_Witness ==
  /\ serOut # <<>>
  /\ serIn = << <<"a">>, <<";">> >>
  /\ serOther = << <<>> >>
  /\ serOut[1] = <<"a", ",", ";">>
  /\ serOut[2] = <<>>

\* ---- constructions with pairwise distinct ids
\* Some extension constructor is called with this scope and id.
Constructs(scope, id) ==
  \/ ModifyResponseHeader(scope, id)
  \/ \E referer \in RefererLists : AntiHotlinking(scope, id, [referer |-> referer])
  \/ SecurtyHeaders(scope, id)
  \/ \E originIp \in OriginIpLists, proto \in OriginProtocols :
        MultipleOriginIpRetry(scope, id, [originIp |-> originIp, originProtocol |-> proto])
  \/ NormalizeQueryString(scope, id)
  \/ \E props \in CustomPropsSet : Custom(scope, id, props)
  \/ DefaultDirIndex(scope, id)
  \/ CustomErrorPage(scope, id)
  \/ \E table \in CountryTables : AccessOriginByGeolocation(scope, id, [countryTable |-> table])
  \/ \E table \in CountryTables : RedirectByGeolocation(scope, id, [countryTable |-> table])
  \/ SimpleLambdaEdge(scope, id)
  \/ \E props \in OAuthProps : OAuth2AuthorizationCodeGrant(scope, id, props)
  \/ \E name \in StreamNames : GlobalDataIngestion(scope, id, [firehoseStreamName |-> name])

\* Every call so far made an extension, no two of them under the same id,
\* and nothing else was added to the stack.
OnlyDistinctIdsSoFar ==
  /\ Cardinality(exts) = ops
  /\ dists = {}
  /\ \A e1, e2 \in exts : e1.id = e2.id => e1 = e2

\* C14 as claimed: after constructions with pairwise distinct ids, a
\* construction of any kind, in any scope of the stack, under an id not used
\* before does not fail with a duplicate construct name.
C14_DistinctIdsNeverCollide ==
  [][\A scope \in Scopes, id \in Ids :
       ( /\ OnlyDistinctIdsSoFar
         /\ id \notin {e.id : e \in exts}
         /\ Constructs(scope, id) )
       => err' # "DuplicateConstructName"]_vars

====
